---- MODULE Spec2Model ----
(***************************************************************************)
(* Model of src/src/client.rs: the Code Dx API client's response pipeline  *)
(* (ApiResponse::expect_success / expect_json / get), its error model      *)
(* (ApiError, ApiErrorMessage::from_body), the typed client operations     *)
(* built on ApiClient::api_request, and ApiClient::poll_job_completion.    *)
(*                                                                         *)
(* The transport (reqwest) and the server are the environment: every send  *)
(* nondeterministically yields a transport error or a response with a      *)
(* status code, a body and a flag telling whether the body can be read.    *)
(***************************************************************************)
EXTENDS Integers, Sequences, FiniteSets, TLC

(***************************************************************************)
(* Bounds of the model.                                                    *)
(***************************************************************************)
\* poll_job_completion is cut off after MaxIter status fetches
MaxIter == 3
\* start_analysis is called with at most MaxFiles files
MaxFiles == 2

(***************************************************************************)
(* The threads sharing one ApiClient.                                      *)
(***************************************************************************)
Callers == {1, 2}

(***************************************************************************)
(* JobStatus (client.rs 60-85) and its wire form (rename_all lowercase).   *)
(***************************************************************************)
JobStatus == {"Queued", "Running", "Cancelled", "Completed", "Failed"}

WireStatus == {"queued", "running", "cancelled", "completed", "failed"}

\* #[serde(rename_all = "lowercase")] on JobStatus: the variant of a wire name
JobStatus_from_wire(w) ==
    CASE w = "queued"    -> "Queued"
      [] w = "running"   -> "Running"
      [] w = "cancelled" -> "Cancelled"
      [] w = "completed" -> "Completed"
      [] w = "failed"    -> "Failed"

\* a plausible slip: only Completed counts as ready
is_ready_completed_only(status) ==
    CASE status = "Completed" -> TRUE
      [] OTHER                -> FALSE

\* a plausible slip: a cancelled job counts as ready too
is_ready_or_cancelled(status) ==
    CASE status = "Completed" -> TRUE
      [] status = "Failed"    -> TRUE
      [] status = "Cancelled" -> TRUE
      [] OTHER                -> FALSE

is_ready(status) ==
    CASE status = "Completed" -> TRUE
      [] status = "Failed"    -> TRUE
      [] OTHER                -> FALSE

is_success(status) ==
    CASE status = "Completed" -> TRUE
      [] OTHER                -> FALSE

(***************************************************************************)
(* ApiError and ApiErrorMessage (client.rs 103-136).  Every error records  *)
(* the exchange (the caller's n-th send, 0 before any send) it came from,  *)
(* which is what makes "the same error" checkable.                         *)
(***************************************************************************)
NoMsg == [kind |-> "none", text |-> ""]

Nice(text) == [kind |-> "Nice", text |-> text]

Raw(text) == [kind |-> "Raw", text |-> text]

NoError == [kind |-> "none", status |-> 0, msg |-> NoMsg, cause |-> "", exchange |-> 0]

\* ApiError::Protocol(reqwest::Error); impl From<reqwest::Error> for ApiError
Protocol(cause, n) ==
    [kind |-> "Protocol", status |-> 0, msg |-> NoMsg, cause |-> cause, exchange |-> n]

\* ApiError::NonSuccess(StatusCode, ApiErrorMessage)
NonSuccess(code, m, n) ==
    [kind |-> "NonSuccess", status |-> code, msg |-> m, cause |-> "status", exchange |-> n]

\* ApiError::IO(std::io::Error); impl From<std::io::Error> for ApiError
IO(cause, n) ==
    [kind |-> "IO", status |-> 0, msg |-> NoMsg, cause |-> cause, exchange |-> n]

(***************************************************************************)
(* Response bodies.  A body is its text together with the JSON document    *)
(* the text denotes: not JSON at all, an object (its fields), or an array  *)
(* (its items, each an object's fields).                                   *)
(***************************************************************************)
Str(name, v) == [name |-> name, type |-> "string", val |-> v]

Num(name, v) == [name |-> name, type |-> "number", val |-> v]

Txt(text) == [text |-> text, kind |-> "invalid", fields |-> {}, items |-> <<>>]

Obj(text, fields) == [text |-> text, kind |-> "object", fields |-> fields, items |-> <<>>]

Arr(text, items) == [text |-> text, kind |-> "array", fields |-> {}, items |-> items]

StatusBody(w) ==
    Obj("{\"jobId\":\"j1\",\"status\":\"" \o w \o "\"}", {Str("jobId", "j1"), Str("status", w)})

Bodies ==
    { StatusBody(w) : w \in WireStatus } \cup
    { Obj("{\"error\":\"not found\"}", {Str("error", "not found")}),
      Obj("{\"error\":404}", {Num("error", "404")}),
      Obj("{\"analysisId\":5,\"jobId\":\"j1\"}", {Num("analysisId", "5"), Str("jobId", "j1")}),
      Arr("[{\"id\":1,\"name\":\"p\"}]", << {Num("id", "1"), Str("name", "p")} >>),
      Txt("internal server error"),
      Txt("") }

HasField(fields, name, type) == \E f \in fields : f.name = name /\ f.type = type

FieldVal(fields, name) == (CHOOSE f \in fields : f.name = name).val

(***************************************************************************)
(* HTTP status codes and hyper's StatusCode::is_success (2xx).             *)
(***************************************************************************)
StatusCodes == {100, 200, 299, 300, 404, 500}

\* a plausible slip: everything below 400 counts as success
is_success_code_below_400(code) == code < 400

is_success_code(code) == 200 <= code /\ code <= 299

(***************************************************************************)
(* Results.  ApiResult<reqwest::Response> is [ok, resp, err]; a typed      *)
(* ApiResult<T> is [ok, val, err].                                         *)
(***************************************************************************)
NoResp == [status |-> 0, body |-> Txt(""), readable |-> FALSE, exchange |-> 0]

NoVal == [type |-> "none", status |-> "", id |-> "", n |-> ""]

OkResp(r) == [ok |-> TRUE, resp |-> r, err |-> NoError]

ErrResp(e) == [ok |-> FALSE, resp |-> NoResp, err |-> e]

Ok(v) == [ok |-> TRUE, val |-> v, err |-> NoError]

Err(e) == [ok |-> FALSE, val |-> NoVal, err |-> e]

\* no value yet: the variable is not assigned
Unset == [ok |-> FALSE, val |-> NoVal, err |-> NoError]

UnsetResp == [ok |-> FALSE, resp |-> NoResp, err |-> NoError]

StatusVal(s) == [type |-> "JobStatus", status |-> s, id |-> "", n |-> ""]

UnitVal == [type |-> "unit", status |-> "", id |-> "", n |-> ""]

(***************************************************************************)
(* Events a caller performs, in order (history; not program state).        *)
(***************************************************************************)
E(ev) == [ev |-> ev, it |-> 0, status |-> "", dur |-> -1]

EStrategy(it, status, w) ==
    [ev |-> "next_wait", it |-> it, status |-> status, dur |-> IF w.some THEN w.d ELSE -1]

ESleep(d) == [ev |-> "sleep", it |-> 0, status |-> "", dur |-> d]

EAttach(index) == [ev |-> "attach", it |-> index, status |-> "", dur |-> -1]

Count(log_, ev) == Cardinality({i \in 1..Len(log_) : log_[i].ev = ev})

(***************************************************************************)
(* ApiErrorMessage::from_body (client.rs 137-146) and the deserializer of  *)
(* ErrorMessageResponse (client.rs 153-156).                               *)
(***************************************************************************)
\* serde_json::from_str::<ErrorMessageResponse>(&body): an object with a string
\* field "error" (other fields are ignored); anything else is a parse error
from_str_ErrorMessageResponse(body) ==
    IF body.kind = "object" /\ HasField(body.fields, "error", "string")
    THEN [ok |-> TRUE, error |-> FieldVal(body.fields, "error")]
    ELSE [ok |-> FALSE, error |-> ""]

\* a plausible slip: a parse failure falls back to an empty raw message
from_body_drops_raw(response) ==
    IF ~response.readable
    THEN [ok |-> FALSE, msg |-> NoMsg, err |-> IO("read_body", response.exchange)]
    ELSE LET body == response.body
             parsed == from_str_ErrorMessageResponse(body)
         IN  IF parsed.ok
             THEN [ok |-> TRUE, msg |-> Nice(parsed.error), err |-> NoError]
             ELSE [ok |-> TRUE, msg |-> Raw(""), err |-> NoError]

\* a plausible slip: a body that cannot be read counts as an empty raw message
from_body_unreadable_is_empty(response) ==
    IF ~response.readable
    THEN [ok |-> TRUE, msg |-> Raw(""), err |-> NoError]
    ELSE LET body == response.body
             parsed == from_str_ErrorMessageResponse(body)
         IN  IF parsed.ok
             THEN [ok |-> TRUE, msg |-> Nice(parsed.error), err |-> NoError]
             ELSE [ok |-> TRUE, msg |-> Raw(body.text), err |-> NoError]

\* Result<ApiErrorMessage, ApiError> as [ok, msg, err]
from_body(response) ==
    IF ~response.readable
    THEN \* read_to_string failed: map_err(ApiError::from)
         [ok |-> FALSE, msg |-> NoMsg, err |-> IO("read_body", response.exchange)]
    ELSE LET body == response.body
             parsed == from_str_ErrorMessageResponse(body)
         IN  IF parsed.ok
             THEN [ok |-> TRUE, msg |-> Nice(parsed.error), err |-> NoError]
             ELSE [ok |-> TRUE, msg |-> Raw(body.text), err |-> NoError]

(***************************************************************************)
(* Decoding a response body as T: reqwest's Response::json with the        *)
(* derived deserializers of client.rs 42-58 and 87-101.                    *)
(***************************************************************************)
ResponseTypes == {"JobStatusResponse", "Vec<ApiProject>", "ApiAnalysisJobResponse"}

IsApiProject(fields) == HasField(fields, "id", "number") /\ HasField(fields, "name", "string")

deserialize(T, body) ==
    CASE T = "JobStatusResponse" ->
            IF /\ body.kind = "object"
               /\ HasField(body.fields, "jobId", "string")
               /\ HasField(body.fields, "status", "string")
               /\ FieldVal(body.fields, "status") \in WireStatus
            THEN [ok |-> TRUE,
                  val |-> [type |-> T,
                           status |-> JobStatus_from_wire(FieldVal(body.fields, "status")),
                           id |-> FieldVal(body.fields, "jobId"), n |-> ""]]
            ELSE [ok |-> FALSE, val |-> NoVal]
      [] T = "ApiAnalysisJobResponse" ->
            IF /\ body.kind = "object"
               /\ HasField(body.fields, "analysisId", "number")
               /\ HasField(body.fields, "jobId", "string")
            THEN [ok |-> TRUE,
                  val |-> [type |-> T, status |-> "",
                           id |-> FieldVal(body.fields, "jobId"),
                           n |-> FieldVal(body.fields, "analysisId")]]
            ELSE [ok |-> FALSE, val |-> NoVal]
      [] T = "Vec<ApiProject>" ->
            IF /\ body.kind = "array"
               /\ \A i \in 1..Len(body.items) : IsApiProject(body.items[i])
            THEN [ok |-> TRUE, val |-> [type |-> T, status |-> "", id |-> "", n |-> body.text]]
            ELSE [ok |-> FALSE, val |-> NoVal]

\* response.json::<T>(): a body that cannot be read or parsed is a reqwest::Error
json(T, response) ==
    IF response.readable /\ deserialize(T, response.body).ok
    THEN Ok(deserialize(T, response.body).val)
    ELSE Err(Protocol("decode", response.exchange))

(***************************************************************************)
(* ApiResponse (client.rs 189-216).  Each combinator gives its value and   *)
(* the events (body read, decode) it performed on the response.            *)
(***************************************************************************)
\* ApiResponse::from
from(r) == r

\* ApiResponse::get
get(self) == self

\* a plausible slip: the status is checked and the response is turned into an
\* error, but the inner error of an earlier stage is replaced as well
expect_success_no_short_circuit(self) ==
    IF self.ok /\ is_success_code(self.resp.status)
    THEN [value |-> OkResp(self.resp), events |-> <<>>]
    ELSE [value |-> ErrResp(NonSuccess(self.resp.status, Raw(self.resp.body.text),
                                       self.resp.exchange)),
          events |-> <<E("read_body")>>]

expect_success(self) ==
    IF ~self.ok
    THEN [value |-> self, events |-> <<>>]
    ELSE LET response == self.resp IN
         IF is_success_code(response.status)
         THEN [value |-> OkResp(response), events |-> <<>>]
         ELSE LET response_msg == from_body(response) IN
              [value |-> IF response_msg.ok
                         THEN ErrResp(NonSuccess(response.status, response_msg.msg,
                                                 response.exchange))
                         ELSE ErrResp(response_msg.err),
               events |-> <<E("read_body")>>]

\* a plausible slip: the decode failure is reported as an I/O error
expect_json_io(T, self) ==
    IF ~self.ok
    THEN [value |-> Err(self.err), events |-> <<>>]
    ELSE [value |-> IF json(T, self.resp).ok THEN json(T, self.resp)
                    ELSE Err(IO("decode", self.resp.exchange)),
          events |-> <<E("decode")>>]

expect_json(T, self) ==
    IF ~self.ok
    THEN [value |-> Err(self.err), events |-> <<>>]
    ELSE [value |-> json(T, self.resp), events |-> <<E("decode")>>]

(***************************************************************************)
(* PollingStrategy (client.rs 158-175).  A strategy is the fixed-wait      *)
(* Duration of the source or any caller-supplied implementation; the       *)
(* latter may answer anything, so next_wait gives the set of its answers.  *)
(***************************************************************************)
Durations == {0, 1}

None == [some |-> FALSE, d |-> 0]

Some(d) == [some |-> TRUE, d |-> d]

Strategies == { [kind |-> "Duration", d |-> d] : d \in Durations } \cup
              { [kind |-> "Custom", d |-> 0] }

\* a plausible slip: the fixed wait gives up on a cancelled job
next_wait_gives_up(self, iteration_number_, state) ==
    IF self.kind = "Duration"
    THEN IF state = "Cancelled" THEN {None} ELSE {Some(self.d)}
    ELSE {None} \cup {Some(d) : d \in Durations}

next_wait(self, iteration_number_, state) ==
    IF self.kind = "Duration"
    THEN {Some(self.d)}
    ELSE {None} \cup {Some(d) : d \in Durations}

(***************************************************************************)
(* ReqBody (client.rs 349-373) and the multipart form of start_analysis.   *)
(***************************************************************************)
NoForm == <<>>

ReqBody_None == [kind |-> "None", json |-> "", form |-> NoForm]

ReqBody_Json(value) == [kind |-> "Json", json |-> value, form |-> NoForm]

ReqBody_Form(form) == [kind |-> "Form", json |-> "", form |-> form]

\* the files a caller may pass: a path and whether Form::file can read it
FileSet == { [path |-> "src.zip", attachable |-> TRUE],
             [path |-> "missing.zip", attachable |-> FALSE] }

RECURSIVE SeqsUpTo(_, _)
SeqsUpTo(S, n) ==
    IF n = 0 THEN {<<>>}
    ELSE LET shorter == SeqsUpTo(S, n - 1)
         IN  shorter \cup { Append(q, x) : q \in {r \in shorter : Len(r) = n - 1}, x \in S }

FileLists == SeqsUpTo(FileSet, MaxFiles)

\* Form::file(name, path): a part named name, or an io::Error
Form_file(form, index, file) ==
    IF file.attachable
    THEN [ok |-> TRUE, form |-> Append(form, [name |-> <<"file", index>>, path |-> file.path]),
          err |-> NoError]
    ELSE [ok |-> FALSE, form |-> NoForm, err |-> IO("file", index)]

\* the fold of start_analysis over files[1..k] (zero-based index k-1 last):
\* [ok, form, err, events], events being the attach attempts made
\* a plausible slip: a file that cannot be attached is skipped
RECURSIVE fold_files_skip_unreadable(_, _)
fold_files_skip_unreadable(files, k) ==
    IF k = 0
    THEN [ok |-> TRUE, form |-> NoForm, err |-> NoError, events |-> <<>>]
    ELSE LET maybe_form == fold_files_skip_unreadable(files, k - 1)
             attached == Form_file(maybe_form.form, k - 1, files[k])
         IN  [ok |-> TRUE,
              form |-> IF attached.ok THEN attached.form ELSE maybe_form.form,
              err |-> NoError,
              events |-> Append(maybe_form.events, EAttach(k - 1))]

RECURSIVE fold_files(_, _)
fold_files(files, k) ==
    IF k = 0
    THEN [ok |-> TRUE, form |-> NoForm, err |-> NoError, events |-> <<>>]
    ELSE LET maybe_form == fold_files(files, k - 1) IN
         IF ~maybe_form.ok
         THEN maybe_form
         ELSE LET attached == Form_file(maybe_form.form, k - 1, files[k]) IN
              [ok |-> attached.ok, form |-> attached.form, err |-> attached.err,
               events |-> Append(maybe_form.events, EAttach(k - 1))]

(***************************************************************************)
(* ClientConfig, the collaborator of client.rs 17: api_url joins the base  *)
(* URL with the path segments, apply_auth adds the credentials.            *)
(***************************************************************************)
Configs == { [base |-> "https://codedx/", auth |-> "api-key", insecure |-> FALSE] }

api_url(config, path_segments) == <<config.base>> \o path_segments

apply_auth(config, request_builder) == [request_builder EXCEPT !.auth = config.auth]

\* ApiClient::new (client.rs 225-233)
ApiClient_new(config) ==
    [config |-> config, client |-> [hostname_verification |-> ~config.insecure]]

(***************************************************************************)
(* The operations of ApiClient and the request each of them builds.        *)
(***************************************************************************)
\* the job each caller asks about
JobOf(p) == IF p = 1 THEN "j1" ELSE "j2"

u32_to_string(n) == CASE n = 1 -> "1" [] n = 5 -> "5"

OpNames == {"get_job_status", "poll_job_completion", "get_projects", "query_projects",
            "start_analysis", "set_analysis_name"}

NoOp == [name |-> "none", job_id |-> "", project_id |-> 1, analysis_id |-> 5, files |-> <<>>]

OpCall(name, job_id, files) ==
    [name |-> name, job_id |-> job_id, project_id |-> 1, analysis_id |-> 5, files |-> files]

\* the method, path segments and body each operation hands to api_request
RequestOf(o, form) ==
    CASE o.name \in {"get_job_status", "poll_job_completion"} ->
            [method |-> "Get", path_segments |-> <<"api", "jobs", o.job_id>>,
             body |-> ReqBody_None]
      [] o.name = "get_projects" ->
            [method |-> "Get", path_segments |-> <<"x", "projects">>, body |-> ReqBody_None]
      [] o.name = "query_projects" ->
            [method |-> "Post", path_segments |-> <<"x", "projects", "query">>,
             body |-> ReqBody_Json("{\"filter\":{}}")]
      [] o.name = "start_analysis" ->
            [method |-> "Post",
             path_segments |-> <<"api", "projects", u32_to_string(o.project_id), "analysis">>,
             body |-> ReqBody_Form(form)]
      [] o.name = "set_analysis_name" ->
            [method |-> "Put",
             path_segments |-> <<"x", "projects", u32_to_string(o.project_id), "analyses",
                                 u32_to_string(o.analysis_id)>>,
             body |-> ReqBody_Json("{\"name\":\"n\"}")]

\* the type each operation decodes the response as
TypeOf(o) ==
    CASE o.name \in {"get_job_status", "poll_job_completion"} -> "JobStatusResponse"
      [] o.name \in {"get_projects", "query_projects"} -> "Vec<ApiProject>"
      [] o.name = "start_analysis" -> "ApiAnalysisJobResponse"

\* get_job_status: .map(|jsr| jsr.status)
map_status(r) == IF r.ok THEN Ok(StatusVal(r.val.status)) ELSE r

\* set_analysis_name: .get().map(|_| ())
map_unit(r) == IF r.ok THEN Ok(UnitVal) ELSE Err(r.err)

(***************************************************************************)
(* State.                                                                  *)
(***************************************************************************)
VARIABLES
    api_client,        \* the shared ApiClient: config and transport handle
    server,            \* the environment: which answers the remote service gives
    pc,                \* where each caller is in its call
    op,                \* the operation each caller runs, with its arguments
    strategy,          \* poll_job_completion: polling_strategy
    form,              \* start_analysis: the multipart form built
    pipeline,          \* the ApiResponse the caller holds
    status_result,     \* poll_job_completion: status_result
    iteration_number,  \* poll_job_completion: iteration_number
    wait_dur,          \* poll_job_completion: wait_dur of the pending sleep
    result,            \* the value the call returned
    requests,          \* history: the requests the caller sent, in order
    received,          \* history: what the transport answered to the latest of them
    checked,           \* history: what expect_success made of that answer
    fetched,           \* history: the results of the caller's get_job_status calls
    log                \* history: the caller's events, in order

vars == <<api_client, server, pc, op, strategy, form, pipeline, status_result, iteration_number,
          wait_dur, result, requests, received, checked, fetched, log>>

NoStrategy == [kind |-> "none", d |-> 0]

\* the client is built; the callers in `active` are about to make one call each,
\* against a remote service of kind `service`
InitWith(active, service) ==
    /\ api_client \in { ApiClient_new(c) : c \in Configs }
    /\ server = service
    /\ pc = [p \in Callers |-> IF p \in active THEN "idle" ELSE "absent"]
    /\ op = [p \in Callers |-> NoOp]
    /\ strategy = [p \in Callers |-> NoStrategy]
    /\ form = [p \in Callers |-> NoForm]
    /\ pipeline = [p \in Callers |-> UnsetResp]
    /\ status_result = [p \in Callers |-> Unset]
    /\ iteration_number = [p \in Callers |-> 0]
    /\ wait_dur = [p \in Callers |-> 0]
    /\ result = [p \in Callers |-> Unset]
    /\ requests = [p \in Callers |-> <<>>]
    /\ received = [p \in Callers |-> UnsetResp]
    /\ checked = [p \in Callers |-> UnsetResp]
    /\ fetched = [p \in Callers |-> <<>>]
    /\ log = [p \in Callers |-> <<>>]

Init == InitWith({1}, "any")

(***************************************************************************)
(* A caller starts one operation.                                          *)
(***************************************************************************)
Enter(p, o, s, first) ==
    /\ pc[p] = "idle"
    /\ op' = [op EXCEPT ![p] = o]
    /\ strategy' = [strategy EXCEPT ![p] = s]
    /\ pc' = [pc EXCEPT ![p] = first]
    /\ UNCHANGED <<api_client, server, form, pipeline, status_result, iteration_number, wait_dur,
                   result, requests, received, checked, fetched, log>>

\* client.rs 239: get_job_status(job_id)
Call_get_job_status(p) ==
    Enter(p, OpCall("get_job_status", JobOf(p), <<>>), NoStrategy, "api_request")

\* client.rs 256-257: poll_job_completion(job_id, polling_strategy); iteration_number = 0
Call_poll_job_completion(p) ==
    \E s \in Strategies :
        Enter(p, OpCall("poll_job_completion", JobOf(p), <<>>), s, "api_request")

\* client.rs 279: get_projects()
Call_get_projects(p) == Enter(p, OpCall("get_projects", "", <<>>), NoStrategy, "api_request")

\* client.rs 285: query_projects(filter)
Call_query_projects(p) ==
    Enter(p, OpCall("query_projects", "", <<>>), NoStrategy, "api_request")

\* client.rs 291: start_analysis(project_id, files)
Call_start_analysis(p) ==
    \E files \in FileLists : Enter(p, OpCall("start_analysis", "", files), NoStrategy, "fold")

\* client.rs 307: set_analysis_name(project_id, analysis_id, name)
Call_set_analysis_name(p) ==
    Enter(p, OpCall("set_analysis_name", "", <<>>), NoStrategy, "api_request")

(***************************************************************************)
(* start_analysis, client.rs 292-300: the fold over the files.  An attach  *)
(* failure returns the error; otherwise the form goes to api_post.         *)
(***************************************************************************)
StartAnalysisFold(p) ==
    /\ pc[p] = "fold"
    /\ LET maybe_form == fold_files(op[p].files, Len(op[p].files)) IN
       /\ log' = [log EXCEPT ![p] = @ \o maybe_form.events]
       /\ IF maybe_form.ok
          THEN /\ form' = [form EXCEPT ![p] = maybe_form.form]
               /\ pc' = [pc EXCEPT ![p] = "api_request"]
               /\ UNCHANGED result
          ELSE /\ result' = [result EXCEPT ![p] = Err(maybe_form.err)]
               /\ pc' = [pc EXCEPT ![p] = "done"]
               /\ UNCHANGED form
    /\ UNCHANGED <<api_client, server, op, strategy, pipeline, status_result, iteration_number,
                   wait_dur, requests, received, checked, fetched>>

(***************************************************************************)
(* api_request, client.rs 330-346 (reached through api_get / api_post /    *)
(* api_put, 314-328): URL, authentication, body, send.  The transport      *)
(* answers with an error or with any response.                             *)
(***************************************************************************)
\* what the remote service may answer: anything at all ("any"), or, for a
\* service that only tracks jobs, a well-formed job status or a plain-text
\* 500; "job" reports every status, "jobs" only running and completed
Answers(service) ==
    IF service = "any"
    THEN { [status |-> c, body |-> b, readable |-> r] :
             c \in StatusCodes, b \in Bodies, r \in BOOLEAN }
    ELSE { [status |-> 200, body |-> StatusBody(w), readable |-> TRUE] :
             w \in IF service = "jobs" THEN {"running", "completed"} ELSE WireStatus } \cup
         { [status |-> 500, body |-> Txt("internal server error"), readable |-> TRUE] }

Responses(n) ==
    { [status |-> a.status, body |-> a.body, readable |-> a.readable, exchange |-> n] :
        a \in Answers(server) }

\* request_builder.send().map_err(ApiError::from)
SendOutcomes(n) == {ErrResp(Protocol("send", n))} \cup { OkResp(r) : r \in Responses(n) }

\* a plausible slip: the request is sent without apply_auth
ApiRequest_no_auth(p) ==
    /\ pc[p] = "api_request"
    /\ LET r == RequestOf(op[p], form[p])
           url == api_url(api_client.config, r.path_segments)
           request_builder ==
               [method |-> r.method, url |-> url, auth |-> "", body |-> ReqBody_None]
           request == [request_builder EXCEPT !.body = r.body]
           n == Len(requests[p]) + 1
       IN  /\ requests' = [requests EXCEPT ![p] = Append(@, request)]
           /\ log' = [log EXCEPT ![p] = @ \o <<E("api_url"), E("body"), E("send")>>]
           /\ \E outcome \in SendOutcomes(n) :
                  /\ pipeline' = [pipeline EXCEPT ![p] = from(outcome)]
                  /\ received' = [received EXCEPT ![p] = outcome]
    /\ pc' = [pc EXCEPT ![p] = "expect_success"]
    /\ UNCHANGED <<api_client, server, op, strategy, form, status_result, iteration_number,
                   wait_dur, result, checked, fetched>>

ApiRequest(p) ==
    /\ pc[p] = "api_request"
    /\ LET r == RequestOf(op[p], form[p])
           url == api_url(api_client.config, r.path_segments)
           request_builder ==
               apply_auth(api_client.config,
                          [method |-> r.method, url |-> url, auth |-> "", body |-> ReqBody_None])
           request == [request_builder EXCEPT !.body = r.body]
           n == Len(requests[p]) + 1
       IN  /\ requests' = [requests EXCEPT ![p] = Append(@, request)]
           /\ log' = [log EXCEPT ![p] =
                         @ \o <<E("api_url"), E("apply_auth"), E("body"), E("send")>>]
           /\ \E outcome \in SendOutcomes(n) :
                  /\ pipeline' = [pipeline EXCEPT ![p] = from(outcome)]
                  /\ received' = [received EXCEPT ![p] = outcome]
    /\ pc' = [pc EXCEPT ![p] = "expect_success"]
    /\ UNCHANGED <<api_client, server, op, strategy, form, status_result, iteration_number, wait_dur,
                   result, checked, fetched>>

(***************************************************************************)
(* The chain on the ApiResponse: .expect_success() and then                *)
(* .expect_json::<T>() (or .get() in set_analysis_name).                   *)
(***************************************************************************)
\* a plausible slip: a response that is not a success is asked for again
ExpectSuccess_retry(p) ==
    /\ pc[p] = "expect_success"
    /\ LET success == expect_success(pipeline[p]) IN
       /\ pipeline' = [pipeline EXCEPT ![p] = success.value]
       /\ checked' = [checked EXCEPT ![p] = success.value]
       /\ log' = [log EXCEPT ![p] = @ \o success.events]
       /\ pc' = [pc EXCEPT ![p] =
                    IF pipeline[p].ok /\ ~success.value.ok /\ Len(requests[p]) < MaxIter
                    THEN "api_request"
                    ELSE IF op[p].name = "set_analysis_name" THEN "get" ELSE "expect_json"]
    /\ UNCHANGED <<api_client, server, op, strategy, form, status_result, iteration_number, wait_dur,
                   result, requests, received, fetched>>

ExpectSuccess(p) ==
    /\ pc[p] = "expect_success"
    /\ LET success == expect_success(pipeline[p]) IN
       /\ pipeline' = [pipeline EXCEPT ![p] = success.value]
       /\ checked' = [checked EXCEPT ![p] = success.value]
       /\ log' = [log EXCEPT ![p] = @ \o success.events]
    /\ pc' = [pc EXCEPT ![p] =
                 IF op[p].name = "set_analysis_name" THEN "get" ELSE "expect_json"]
    /\ UNCHANGED <<api_client, server, op, strategy, form, status_result, iteration_number, wait_dur,
                   result, requests, received, fetched>>

ExpectJson(p) ==
    /\ pc[p] = "expect_json"
    /\ LET decoded == expect_json(TypeOf(op[p]), pipeline[p]) IN
       /\ log' = [log EXCEPT ![p] = @ \o decoded.events]
       /\ pipeline' = [pipeline EXCEPT ![p] = UnsetResp]
       /\ CASE op[p].name = "poll_job_completion" ->
                  \* client.rs 259: let status_result = self.get_job_status(job_id)
                  /\ status_result' = [status_result EXCEPT ![p] = map_status(decoded.value)]
                  /\ fetched' = [fetched EXCEPT ![p] = Append(@, map_status(decoded.value))]
                  /\ pc' = [pc EXCEPT ![p] = "match"]
                  /\ UNCHANGED result
            [] op[p].name = "get_job_status" ->
                  /\ result' = [result EXCEPT ![p] = map_status(decoded.value)]
                  /\ fetched' = [fetched EXCEPT ![p] = Append(@, map_status(decoded.value))]
                  /\ pc' = [pc EXCEPT ![p] = "done"]
                  /\ UNCHANGED status_result
            [] OTHER ->
                  /\ result' = [result EXCEPT ![p] = decoded.value]
                  /\ pc' = [pc EXCEPT ![p] = "done"]
                  /\ UNCHANGED <<status_result, fetched>>
    /\ UNCHANGED <<api_client, server, op, strategy, form, iteration_number, wait_dur, requests,
                   received, checked>>

\* set_analysis_name, client.rs 310-311: .get().map(|_| ())
Get(p) ==
    /\ pc[p] = "get"
    /\ result' = [result EXCEPT ![p] = map_unit(get(pipeline[p]))]
    /\ pipeline' = [pipeline EXCEPT ![p] = UnsetResp]
    /\ pc' = [pc EXCEPT ![p] = "done"]
    /\ UNCHANGED <<api_client, server, op, strategy, form, status_result, iteration_number, wait_dur,
                   requests, received, checked, fetched, log>>

(***************************************************************************)
(* poll_job_completion, client.rs 260-275: count the iteration and match   *)
(* on status_result; then client.rs 269: thread::sleep(wait_dur).          *)
(***************************************************************************)
\* a plausible slip: the poll hands back the first status it saw
PollReturn_first_fetch(p) ==
    /\ result' = [result EXCEPT ![p] = fetched[p][1]]
    /\ pc' = [pc EXCEPT ![p] = "done"]
    /\ UNCHANGED wait_dur

PollReturn(p) ==
    /\ result' = [result EXCEPT ![p] = status_result[p]]
    /\ pc' = [pc EXCEPT ![p] = "done"]
    /\ UNCHANGED wait_dur

\* a plausible slip: a failed status check is retried after a pause
PollMatch_retry_on_error(p) ==
    /\ pc[p] = "match"
    /\ iteration_number' = [iteration_number EXCEPT ![p] = @ + 1]
    /\ IF status_result[p].ok
       THEN LET status == status_result[p].val.status IN
            IF is_ready(status)
            THEN PollReturn(p) /\ UNCHANGED log
            ELSE \E w \in next_wait(strategy[p], iteration_number'[p], status) :
                    /\ log' = [log EXCEPT ![p] =
                                  Append(@, EStrategy(iteration_number'[p], status, w))]
                    /\ IF w.some
                       THEN /\ wait_dur' = [wait_dur EXCEPT ![p] = w.d]
                            /\ pc' = [pc EXCEPT ![p] = "sleep"]
                            /\ UNCHANGED result
                       ELSE PollReturn(p)
       ELSE /\ wait_dur' = [wait_dur EXCEPT ![p] = 0]
            /\ pc' = [pc EXCEPT ![p] = "sleep"]
            /\ UNCHANGED <<result, log>>
    /\ UNCHANGED <<api_client, server, op, strategy, form, pipeline, status_result, requests,
                   received, checked, fetched>>

\* a plausible slip: None is taken as "do not wait" instead of "stop"
PollMatch_none_continues(p) ==
    /\ pc[p] = "match"
    /\ iteration_number' = [iteration_number EXCEPT ![p] = @ + 1]
    /\ IF status_result[p].ok
       THEN LET status == status_result[p].val.status IN
            IF is_ready(status)
            THEN PollReturn(p) /\ UNCHANGED log
            ELSE \E w \in next_wait(strategy[p], iteration_number'[p], status) :
                    /\ log' = [log EXCEPT ![p] =
                                  Append(@, EStrategy(iteration_number'[p], status, w))]
                    /\ wait_dur' = [wait_dur EXCEPT ![p] = w.d]
                    /\ pc' = [pc EXCEPT ![p] = "sleep"]
                    /\ UNCHANGED result
       ELSE PollReturn(p) /\ UNCHANGED log
    /\ UNCHANGED <<api_client, server, op, strategy, form, pipeline, status_result, requests,
                   received, checked, fetched>>

\* a plausible slip: the strategy is asked before the status is looked at
PollMatch_strategy_first(p) ==
    /\ pc[p] = "match"
    /\ iteration_number' = [iteration_number EXCEPT ![p] = @ + 1]
    /\ IF status_result[p].ok
       THEN LET status == status_result[p].val.status IN
            \E w \in next_wait(strategy[p], iteration_number'[p], status) :
                /\ log' = [log EXCEPT ![p] =
                              Append(@, EStrategy(iteration_number'[p], status, w))]
                /\ IF ~is_ready(status) /\ w.some
                   THEN /\ wait_dur' = [wait_dur EXCEPT ![p] = w.d]
                        /\ pc' = [pc EXCEPT ![p] = "sleep"]
                        /\ UNCHANGED result
                   ELSE PollReturn(p)
       ELSE PollReturn(p) /\ UNCHANGED log
    /\ UNCHANGED <<api_client, server, op, strategy, form, pipeline, status_result, requests,
                   received, checked, fetched>>

\* a plausible slip: the strategy gets the counter as it was before this fetch
PollMatch_counts_from_zero(p) ==
    /\ pc[p] = "match"
    /\ iteration_number' = [iteration_number EXCEPT ![p] = @ + 1]
    /\ IF status_result[p].ok
       THEN LET status == status_result[p].val.status IN
            IF is_ready(status)
            THEN PollReturn(p) /\ UNCHANGED log
            ELSE \E w \in next_wait(strategy[p], iteration_number[p], status) :
                    /\ log' = [log EXCEPT ![p] =
                                  Append(@, EStrategy(iteration_number[p], status, w))]
                    /\ IF w.some
                       THEN /\ wait_dur' = [wait_dur EXCEPT ![p] = w.d]
                            /\ pc' = [pc EXCEPT ![p] = "sleep"]
                            /\ UNCHANGED result
                       ELSE PollReturn(p)
       ELSE PollReturn(p) /\ UNCHANGED log
    /\ UNCHANGED <<api_client, server, op, strategy, form, pipeline, status_result, requests,
                   received, checked, fetched>>

\* a plausible slip: one counter for all the polls on the client
PollMatch_shared_counter(p) ==
    /\ pc[p] = "match"
    /\ iteration_number' = [q \in Callers |-> iteration_number[q] + 1]
    /\ IF status_result[p].ok
       THEN LET status == status_result[p].val.status IN
            IF is_ready(status)
            THEN PollReturn(p) /\ UNCHANGED log
            ELSE \E w \in next_wait(strategy[p], iteration_number'[p], status) :
                    /\ log' = [log EXCEPT ![p] =
                                  Append(@, EStrategy(iteration_number'[p], status, w))]
                    /\ IF w.some
                       THEN /\ wait_dur' = [wait_dur EXCEPT ![p] = w.d]
                            /\ pc' = [pc EXCEPT ![p] = "sleep"]
                            /\ UNCHANGED result
                       ELSE PollReturn(p)
       ELSE PollReturn(p) /\ UNCHANGED log
    /\ UNCHANGED <<api_client, server, op, strategy, form, pipeline, status_result, requests,
                   received, checked, fetched>>

\* a plausible slip: a built-in limit, the poll gives up after its second fetch
PollMatch_iteration_limit(p) ==
    /\ pc[p] = "match"
    /\ iteration_number' = [iteration_number EXCEPT ![p] = @ + 1]
    /\ IF status_result[p].ok
       THEN LET status == status_result[p].val.status IN
            IF is_ready(status)
            THEN PollReturn(p) /\ UNCHANGED log
            ELSE \E w \in next_wait(strategy[p], iteration_number'[p], status) :
                    /\ log' = [log EXCEPT ![p] =
                                  Append(@, EStrategy(iteration_number'[p], status, w))]
                    /\ IF w.some /\ iteration_number'[p] < 2
                       THEN /\ wait_dur' = [wait_dur EXCEPT ![p] = w.d]
                            /\ pc' = [pc EXCEPT ![p] = "sleep"]
                            /\ UNCHANGED result
                       ELSE PollReturn(p)
       ELSE PollReturn(p) /\ UNCHANGED log
    /\ UNCHANGED <<api_client, server, op, strategy, form, pipeline, status_result, requests,
                   received, checked, fetched>>

PollMatch(p) ==
    /\ pc[p] = "match"
    /\ iteration_number' = [iteration_number EXCEPT ![p] = @ + 1]
    /\ IF status_result[p].ok
       THEN LET status == status_result[p].val.status IN
            IF is_ready(status)
            THEN PollReturn(p) /\ UNCHANGED log
            ELSE \E w \in next_wait(strategy[p], iteration_number'[p], status) :
                    /\ log' = [log EXCEPT ![p] =
                                  Append(@, EStrategy(iteration_number'[p], status, w))]
                    /\ IF w.some
                       THEN /\ wait_dur' = [wait_dur EXCEPT ![p] = w.d]
                            /\ pc' = [pc EXCEPT ![p] = "sleep"]
                            /\ UNCHANGED result
                       ELSE PollReturn(p)
       ELSE PollReturn(p) /\ UNCHANGED log
    /\ UNCHANGED <<api_client, server, op, strategy, form, pipeline, status_result, requests,
                   received, checked, fetched>>

\* a plausible slip: the pause is a fixed second, not what the strategy said
PollSleep_fixed_pause(p) ==
    /\ pc[p] = "sleep"
    /\ iteration_number[p] < MaxIter
    /\ log' = [log EXCEPT ![p] = Append(@, ESleep(1))]
    /\ pc' = [pc EXCEPT ![p] = "api_request"]
    /\ UNCHANGED <<api_client, server, form, op, strategy, pipeline, status_result, iteration_number,
                   wait_dur, result, requests, received, checked, fetched>>

PollSleep(p) ==
    /\ pc[p] = "sleep"
    /\ iteration_number[p] < MaxIter
    /\ log' = [log EXCEPT ![p] = Append(@, ESleep(wait_dur[p]))]
    /\ pc' = [pc EXCEPT ![p] = "api_request"]
    /\ UNCHANGED <<api_client, server, op, strategy, form, pipeline, status_result, iteration_number,
                   wait_dur, result, requests, received, checked, fetched>>

Next ==
    \E p \in Callers :
        \/ Call_get_job_status(p)
        \/ Call_poll_job_completion(p)
        \/ Call_get_projects(p)
        \/ Call_query_projects(p)
        \/ Call_start_analysis(p)
        \/ Call_set_analysis_name(p)
        \/ StartAnalysisFold(p)
        \/ ApiRequest(p)
        \/ ExpectSuccess(p)
        \/ ExpectJson(p)
        \/ Get(p)
        \/ PollMatch(p)
        \/ PollSleep(p)

Spec == Init /\ [][Next]_vars

(***************************************************************************)
(* Two callers share the client, each making one call against a service    *)
(* that tracks jobs.                                                       *)
(***************************************************************************)
InitConc == InitWith({1, 2}, "jobs")

SpecConc == InitConc /\ [][Next]_vars

(***************************************************************************)
(* A call runs on its caller's thread: once started, each of its steps is  *)
(* taken (the request is answered, the checks run, the sleep ends).        *)
(* Whether and when a caller starts a call is up to the caller.            *)
(***************************************************************************)
Step(p) ==
    \/ StartAnalysisFold(p)
    \/ ApiRequest(p)
    \/ ExpectSuccess(p)
    \/ ExpectJson(p)
    \/ Get(p)
    \/ PollMatch(p)
    \/ PollSleep(p)

Fairness == \A p \in Callers : WF_vars(Step(p))

\* one caller, against a service that tracks one job through every status
InitFair == InitWith({1}, "job")

SpecFair == InitFair /\ [][Next]_vars /\ Fairness

(***************************************************************************)
(* Properties of poll_job_completion.                                      *)
(***************************************************************************)
Polling(p) == op[p].name = "poll_job_completion"

Returned(p) == pc[p] = "done"

\* the k-th get_job_status of caller p gave Ok of a ready status
ReadyAt(p, k) ==
    /\ fetched[p][k].ok
    /\ fetched[p][k].val.status \in {"Completed", "Failed"}

\* the k-th get_job_status of caller p gave Ok of a status that is not ready
WaitingAt(p, k) ==
    /\ fetched[p][k].ok
    /\ fetched[p][k].val.status \in {"Queued", "Running", "Cancelled"}

\* the strategy calls caller p made for iteration k
StrategyCalls(p, k) == {i \in 1..Len(log[p]) : log[p][i].ev = "next_wait" /\ log[p][i].it = k}

\* the strategy calls of caller p that returned None
Aborts(p) == {i \in 1..Len(log[p]) : log[p][i].ev = "next_wait" /\ log[p][i].dur = -1}

\* C1: a poll stops at the first status fetch that gives Completed or Failed:
\* that fetch is the last one, the call returns Ok of exactly that status, the
\* strategy is not asked about it, and no sleep or request follows it.
C1_StopsAtFirstReady ==
    \A p \in Callers : Polling(p) =>
        \A k \in 1..Len(fetched[p]) : ReadyAt(p, k) =>
            /\ k = Len(fetched[p])
            /\ Len(requests[p]) = k
            /\ pc[p] \in {"match", "done"}
            /\ StrategyCalls(p, k) = {}
            /\ Count(log[p], "next_wait") = k - 1
            /\ Count(log[p], "sleep") = k - 1
            /\ Returned(p) => /\ result[p] = Ok(StatusVal(fetched[p][k].val.status))
                              /\ iteration_number[p] = k

\* C1 witness: a poll returned Ok(Failed) from its second fetch
C1_Witness ==
    /\ Polling(1) /\ Returned(1)
    /\ Len(fetched[1]) = 2
    /\ WaitingAt(1, 1)
    /\ result[1] = Ok(StatusVal("Failed"))

\* C2: a status fetch that fails, on the first or on a later iteration, ends
\* the poll at once: the call returns that same error, the strategy is not
\* asked on that iteration, nothing sleeps and no further request is sent.
C2_ErrorStopsPoll ==
    \A p \in Callers : Polling(p) =>
        \A k \in 1..Len(fetched[p]) : ~fetched[p][k].ok =>
            /\ k = Len(fetched[p])
            /\ Len(requests[p]) = k
            /\ pc[p] \in {"match", "done"}
            /\ StrategyCalls(p, k) = {}
            /\ Count(log[p], "next_wait") = k - 1
            /\ Count(log[p], "sleep") = k - 1
            /\ fetched[p][k].err.exchange = k
            /\ Returned(p) => /\ result[p] = fetched[p][k]
                              /\ result[p].err.kind \in {"Protocol", "NonSuccess", "IO"}

\* C2 witness: a poll returned the transport error of its second status fetch
C2_Witness ==
    /\ Polling(1) /\ Returned(1)
    /\ Len(fetched[1]) = 2
    /\ WaitingAt(1, 1)
    /\ result[1] = Err(Protocol("send", 2))

\* C3: when the strategy answers None on iteration k, the poll returns Ok of
\* the non-ready status fetched on that iteration, after exactly k fetches (k
\* requests) and k - 1 sleeps; the None is the last thing the poll did.
C3_AbortReturnsLastStatus ==
    \A p \in Callers : Polling(p) =>
        \A i \in Aborts(p) :
            LET k == log[p][i].it IN
            /\ i = Len(log[p])
            /\ Returned(p)
            /\ Len(fetched[p]) = k
            /\ Len(requests[p]) = k
            /\ Count(log[p], "sleep") = k - 1
            /\ WaitingAt(p, k)
            /\ log[p][i].status = fetched[p][k].val.status
            /\ result[p] = Ok(StatusVal(fetched[p][k].val.status))

\* C3 witness: Queued, Running and None on iteration 2 gives Ok(Running)
C3_Witness ==
    /\ Polling(1) /\ Returned(1)
    /\ Len(fetched[1]) = 2
    /\ fetched[1][1] = Ok(StatusVal("Queued"))
    /\ fetched[1][2] = Ok(StatusVal("Running"))
    /\ Aborts(1) # {}
    /\ result[1] = Ok(StatusVal("Running"))
    /\ Len(requests[1]) = 2

\* C4: when the strategy never aborts and no fetch fails, a poll that returned
\* after n fetches returns Ok of the n-th status, which is the first ready one
\* of the sequence, after exactly n requests and n - 1 strategy calls.
C4_ReturnsFirstReadyAfterNFetches ==
    \A p \in Callers :
        ( /\ Polling(p) /\ Returned(p)
          /\ Aborts(p) = {}
          /\ \A k \in 1..Len(fetched[p]) : fetched[p][k].ok ) =>
            LET n == Len(fetched[p]) IN
            /\ n >= 1
            /\ ReadyAt(p, n)
            /\ \A k \in 1..(n - 1) : WaitingAt(p, k)
            /\ result[p] = Ok(StatusVal(fetched[p][n].val.status))
            /\ Len(requests[p]) = n
            /\ Count(log[p], "next_wait") = n - 1
            /\ \A k \in 1..(n - 1) : Cardinality(StrategyCalls(p, k)) = 1

\* C4 witness: Queued, Running, Completed under a fixed wait of 0 gives
\* Ok(Completed) after exactly 3 fetches
C4_Witness ==
    /\ Polling(1) /\ Returned(1)
    /\ strategy[1] = [kind |-> "Duration", d |-> 0]
    /\ fetched[1] = <<Ok(StatusVal("Queued")), Ok(StatusVal("Running")),
                      Ok(StatusVal("Completed"))>>
    /\ result[1] = Ok(StatusVal("Completed"))
    /\ Len(requests[1]) = 3
    /\ Count(log[1], "next_wait") = 2

(***************************************************************************)
(* Properties of the response pipeline.                                    *)
(***************************************************************************)
\* expect_success has been applied to the latest answer of the transport
Checked(p) ==
    /\ pc[p] \in {"expect_json", "get", "match", "sleep", "done"}
    /\ received[p] # UnsetResp

\* the chain request().expect_success().expect_json::<T>() has run to its end
Decoded(p) ==
    /\ pc[p] \in {"match", "sleep", "done"}
    /\ op[p].name # "set_analysis_name"
    /\ received[p] # UnsetResp

\* what the chain gave: the typed result of the latest exchange
Typed(p) ==
    IF op[p].name \in {"get_job_status", "poll_job_completion"}
    THEN fetched[p][Len(fetched[p])]
    ELSE result[p]

LastSend(p) ==
    CHOOSE i \in 1..Len(log[p]) :
        /\ log[p][i].ev = "send"
        /\ \A j \in (i + 1)..Len(log[p]) : log[p][j].ev # "send"

\* how often the caller did ev on the answer to its latest request
CountSince(p, ev) == Cardinality({i \in LastSend(p)..Len(log[p]) : log[p][i].ev = ev})

Is2xx(code) == code \in 200..299

\* C5 as stated: expect_success passes an error through unchanged, passes a
\* 2xx response through unchanged with its body unread, and replaces every
\* other response, its body consumed, by NonSuccess with the response's status.
C5_ExpectSuccessMapping_AsStated ==
    \A p \in Callers : Checked(p) =>
        LET in == received[p]
            out == checked[p]
        IN  /\ ~in.ok => out = in /\ CountSince(p, "read_body") = 0
            /\ (in.ok /\ Is2xx(in.resp.status)) =>
                  out = in /\ CountSince(p, "read_body") = 0
            /\ (in.ok /\ ~Is2xx(in.resp.status)) =>
                  /\ CountSince(p, "read_body") = 1
                  /\ ~out.ok
                  /\ out.err.kind = "NonSuccess"
                  /\ out.err.status = in.resp.status

\* C5 amended: as above, but a response that is not 2xx is replaced by
\* NonSuccess with its own status only when its body can be read as text;
\* when the body cannot be read it is replaced by an IO error.
C5_ExpectSuccessMapping ==
    \A p \in Callers : Checked(p) =>
        LET in == received[p]
            out == checked[p]
        IN  /\ ~in.ok => out = in /\ CountSince(p, "read_body") = 0
            /\ (in.ok /\ Is2xx(in.resp.status)) =>
                  out = in /\ CountSince(p, "read_body") = 0
            /\ (in.ok /\ ~Is2xx(in.resp.status)) =>
                  /\ CountSince(p, "read_body") = 1
                  /\ ~out.ok
                  /\ in.resp.readable =>
                        /\ out.err.kind = "NonSuccess"
                        /\ out.err.status = in.resp.status
                  /\ ~in.resp.readable => out.err.kind = "IO"

\* C5 witness: a 300 response with a readable body became NonSuccess(300, _)
C5_Witness ==
    /\ Checked(1)
    /\ received[1].ok
    /\ received[1].resp.status = 300
    /\ received[1].resp.readable
    /\ checked[1].err.kind = "NonSuccess"
    /\ checked[1].err.status = 300
    /\ CountSince(1, "read_body") = 1

\* C6: the chain gives the error of the earliest failing stage and no later
\* stage touches the response: a transport error is returned as it is, with no
\* body read and no decode; a response that is not 2xx gives the error of the
\* status check, with no decode; only a 2xx response is decoded, its body not
\* read by the status check.  A readable 404 with body {"error":"not found"}
\* gives NonSuccess(404, Nice("not found")) without a decode.
C6_EarliestFailureWins ==
    \A p \in Callers : Decoded(p) =>
        LET in == received[p]
            out == Typed(p)
            n == Len(requests[p])
        IN  /\ CountSince(p, "read_body") + CountSince(p, "decode") <= 1
            /\ ~in.ok =>
                  /\ out = Err(in.err)
                  /\ out.err = Protocol("send", n)
                  /\ CountSince(p, "read_body") = 0
                  /\ CountSince(p, "decode") = 0
            /\ (in.ok /\ ~Is2xx(in.resp.status)) =>
                  /\ ~out.ok
                  /\ out.err.kind \in {"NonSuccess", "IO"}
                  /\ out.err.cause \in {"status", "read_body"}
                  /\ CountSince(p, "decode") = 0
            /\ (in.ok /\ Is2xx(in.resp.status)) =>
                  /\ CountSince(p, "read_body") = 0
                  /\ CountSince(p, "decode") = 1
                  /\ out.ok \/ out.err = Protocol("decode", n)
            /\ ( /\ in.ok
                 /\ in.resp.status = 404
                 /\ in.resp.readable
                 /\ in.resp.body.text = "{\"error\":\"not found\"}" ) =>
                  /\ out = Err(NonSuccess(404, Nice("not found"), n))
                  /\ CountSince(p, "decode") = 0

\* C6 witness: get_projects returned NonSuccess(404, Nice("not found")) and
\* nothing was decoded
C6_Witness ==
    /\ op[1].name = "get_projects" /\ Returned(1)
    /\ received[1].ok
    /\ received[1].resp.status = 404
    /\ received[1].resp.body.text = "{\"error\":\"not found\"}"
    /\ result[1] = Err(NonSuccess(404, Nice("not found"), 1))
    /\ CountSince(1, "decode") = 0

\* the body is the structured error object: a JSON object with a string "error"
StructuredError(body) ==
    /\ body.kind = "object"
    /\ \E f \in body.fields : f.name = "error" /\ f.type = "string"

C8_DecodeFailureIsProtocol ==
    \A p \in Callers : Decoded(p) =>
        LET in == checked[p]
            out == Typed(p)
        IN  /\ ~in.ok => out = Err(in.err) /\ CountSince(p, "decode") = 0
            /\ in.ok =>
                  /\ CountSince(p, "decode") = 1
                  /\ ~out.ok => /\ out.err.kind = "Protocol"
                                /\ out.err.cause = "decode"
                  /\ (in.resp.body.kind = "invalid" \/ ~in.resp.readable) => ~out.ok
                  /\ (op[p].name = "get_projects" /\ in.resp.body.kind # "array") => ~out.ok
                  /\ ( /\ op[p].name \in {"get_job_status", "poll_job_completion"}
                       /\ in.resp.readable
                       /\ \E w \in WireStatus : in.resp.body = StatusBody(w) ) => out.ok

\* C8 witness: get_job_status got 200 with a body that is not a
\* JobStatusResponse and returned Protocol
C8_Witness ==
    /\ op[1].name = "get_job_status" /\ Returned(1)
    /\ checked[1].ok
    /\ checked[1].resp.status = 200
    /\ checked[1].resp.readable
    /\ checked[1].resp.body.text = "internal server error"
    /\ result[1] = Err(Protocol("decode", 1))

(***************************************************************************)
(* Properties of start_analysis and of the number of requests.             *)
(***************************************************************************)
\* the positions (from 1) of the files of the call that cannot be attached
Unattachable(p) == {i \in 1..Len(op[p].files) : ~op[p].files[i].attachable}

\* the zero-based indexes of the files the caller tried to attach, in order
Attached(p) ==
    LET at == SelectSeq(log[p], LAMBDA e : e.ev = "attach")
    IN  [i \in 1..Len(at) |-> at[i].it]

\* C9: once the fold of start_analysis is over, a file list with a file that
\* cannot be attached gave the IO error of the first such file, no later file
\* was tried, and no request was or will be sent; a request is sent only with
\* every file attached, as file0, file1, ... in input order.
C9_StartAnalysisAllOrNothing ==
    \A p \in Callers : (op[p].name = "start_analysis" /\ pc[p] # "fold") =>
        LET files == op[p].files
            bad == Unattachable(p)
        IN  /\ bad # {} =>
                 LET first == CHOOSE i \in bad : \A j \in bad : i <= j IN
                 /\ Returned(p)
                 /\ result[p] = Err(IO("file", first - 1))
                 /\ Attached(p) = [i \in 1..first |-> i - 1]
                 /\ requests[p] = <<>>
                 /\ Count(log[p], "send") = 0
                 /\ form[p] = NoForm
            /\ requests[p] # <<>> =>
                 /\ bad = {}
                 /\ Len(requests[p]) = 1
                 /\ requests[p][1].body.kind = "Form"
                 /\ requests[p][1].body.form =
                       [i \in 1..Len(files) |->
                           [name |-> <<"file", i - 1>>, path |-> files[i].path]]

\* C9 witness: the second of two files cannot be attached; start_analysis
\* returned its IO error with no request sent
C9_Witness ==
    /\ op[1].name = "start_analysis" /\ Returned(1)
    /\ Len(op[1].files) = 2
    /\ op[1].files[1].attachable
    /\ ~op[1].files[2].attachable
    /\ result[1] = Err(IO("file", 1))
    /\ requests[1] = <<>>

\* the strategy calls of caller p that returned Some
Continues(p) == {i \in 1..Len(log[p]) : log[p][i].ev = "next_wait" /\ log[p][i].dur >= 0}

\* C10: no operation other than the poll sends more than one request, whatever
\* the transport answered; a poll has sent exactly one request per iteration,
\* and each request after the first follows a Some of the strategy for a
\* successfully fetched status that is not ready.
C10_NoImplicitRetry ==
    \A p \in Callers :
        /\ Len(requests[p]) = Count(log[p], "send")
        /\ ~Polling(p) =>
              /\ Len(requests[p]) <= 1
              /\ (Returned(p) /\ ~(op[p].name = "start_analysis" /\ Unattachable(p) # {}))
                    => Len(requests[p]) = 1
        /\ Polling(p) =>
              /\ Len(requests[p]) =
                    iteration_number[p] +
                        (IF pc[p] \in {"expect_success", "expect_json", "match"} THEN 1 ELSE 0)
              /\ Len(requests[p]) <= 1 + Cardinality(Continues(p))
              /\ Len(requests[p]) + (IF pc[p] = "api_request" THEN 1 ELSE 0) =
                    1 + Count(log[p], "sleep")
              /\ \A i \in Continues(p) : WaitingAt(p, log[p][i].it)

\* C10 witness: a poll whose third fetch failed to decode returned after
\* exactly three requests
C10_Witness ==
    /\ Polling(1) /\ Returned(1)
    /\ Len(requests[1]) = 3
    /\ result[1] = Err(Protocol("decode", 3))
    /\ Cardinality(Continues(1)) = 2

(***************************************************************************)
(* Properties of the polling strategy and of the iteration counter.        *)
(***************************************************************************)
\* the calls of next_wait caller p made, in order
StrategyLog(p) == SelectSeq(log[p], LAMBDA e : e.ev = "next_wait")

\* the sleeps of caller p, in order
SleepLog(p) == SelectSeq(log[p], LAMBDA e : e.ev = "sleep")

FixedWait(p) == Polling(p) /\ strategy[p].kind = "Duration"

\* C11: under the fixed-wait strategy d every next_wait, whatever the
\* iteration and the status, answered Some(d); no poll ended by an abort, so a
\* poll that returned gave Ok(Completed), Ok(Failed) or an error; and every
\* sleep lasted exactly d.
C11_FixedWaitNeverAborts ==
    \A p \in Callers : FixedWait(p) =>
        LET d == strategy[p].d IN
        /\ \A i \in 1..Len(StrategyLog(p)) : StrategyLog(p)[i].dur = d
        /\ \A i \in 1..Len(SleepLog(p)) : SleepLog(p)[i].dur = d
        /\ pc[p] = "sleep" => wait_dur[p] = d
        /\ Aborts(p) = {}
        /\ Len(StrategyLog(p)) =
              Cardinality({k \in 1..Len(fetched[p]) : WaitingAt(p, k)})
                 - (IF pc[p] = "match" /\ WaitingAt(p, Len(fetched[p])) THEN 1 ELSE 0)
        /\ Returned(p) =>
              \/ result[p] = Ok(StatusVal("Completed"))
              \/ result[p] = Ok(StatusVal("Failed"))
              \/ ~result[p].ok /\ result[p].err.kind \in {"Protocol", "NonSuccess", "IO"}

\* C11 witness: a poll with a fixed wait of 1 saw Cancelled, slept 1 and
\* returned Ok(Failed)
C11_Witness ==
    /\ FixedWait(1) /\ Returned(1)
    /\ strategy[1].d = 1
    /\ fetched[1] = <<Ok(StatusVal("Cancelled")), Ok(StatusVal("Failed"))>>
    /\ Len(SleepLog(1)) = 1
    /\ SleepLog(1)[1].dur = 1
    /\ result[1] = Ok(StatusVal("Failed"))

\* the status fetches caller p had made before its j-th event
FetchesBefore(p, j) == Cardinality({i \in 1..(j - 1) : log[p][i].ev = "send"})

\* C12: in a poll the counter is 0 until the first fetch has returned and
\* then counts the fetches; the k-th call of next_wait gets iteration_number
\* k (1 for the first call, one more for each further call), which is the
\* number of status fetches made so far.
C12_IterationCountsFetches ==
    \A p \in Callers : Polling(p) =>
        /\ Len(fetched[p]) = 0 => iteration_number[p] = 0
        /\ iteration_number[p] = Len(fetched[p]) - (IF pc[p] = "match" THEN 1 ELSE 0)
        /\ \A k \in 1..Len(StrategyLog(p)) : StrategyLog(p)[k].it = k
        /\ \A j \in 1..Len(log[p]) :
              log[p][j].ev = "next_wait" => log[p][j].it = FetchesBefore(p, j)

\* C12 witness: the third call of next_wait in a poll got iteration_number 3
C12_Witness ==
    /\ Polling(1)
    /\ Len(StrategyLog(1)) = 3
    /\ StrategyLog(1)[1].it = 1
    /\ StrategyLog(1)[3].it = 3
    /\ iteration_number[1] = 3
    /\ Len(fetched[1]) = 3

(***************************************************************************)
(* Properties of api_request.                                              *)
(***************************************************************************)
RequestSteps == {"api_url", "apply_auth", "body", "send"}

\* the steps of api_request caller p performed, in order
StepLog(p) == SelectSeq(log[p], LAMBDA e : e.ev \in RequestSteps)

\* the method and the kind of body each operation sends
MethodOf(name) ==
    CASE name \in {"get_job_status", "poll_job_completion", "get_projects"} -> "Get"
      [] name \in {"query_projects", "start_analysis"} -> "Post"
      [] name = "set_analysis_name" -> "Put"

BodyKindOf(name) ==
    CASE name \in {"get_job_status", "poll_job_completion", "get_projects"} -> "None"
      [] name \in {"query_projects", "set_analysis_name"} -> "Json"
      [] name = "start_analysis" -> "Form"

\* C13: every request a caller sent was built by api_request: for each request
\* the caller resolved the URL, then applied authentication, then attached the
\* body, then sent, each exactly once and with nothing in between; so every
\* request sent carries the credentials of the configuration, the URL the
\* configuration resolved and the body of its operation.
C13_RequestsGoThroughApiRequest ==
    \A p \in Callers :
        /\ Len(StepLog(p)) = 4 * Len(requests[p])
        /\ \A i \in 1..Len(requests[p]) :
              /\ StepLog(p)[4 * i - 3].ev = "api_url"
              /\ StepLog(p)[4 * i - 2].ev = "apply_auth"
              /\ StepLog(p)[4 * i - 1].ev = "body"
              /\ StepLog(p)[4 * i].ev = "send"
              /\ requests[p][i].auth = api_client.config.auth
              /\ requests[p][i].url[1] = api_client.config.base
              /\ Len(requests[p][i].url) > 1
              /\ requests[p][i].method = MethodOf(op[p].name)
              /\ requests[p][i].body.kind = BodyKindOf(op[p].name)
        /\ \A j \in 1..Len(log[p]) : log[p][j].ev = "send" =>
              /\ j >= 4
              /\ log[p][j - 3].ev = "api_url"
              /\ log[p][j - 2].ev = "apply_auth"
              /\ log[p][j - 1].ev = "body"
        /\ (received[p] # UnsetResp \/ pipeline[p] # UnsetResp) => requests[p] # <<>>

\* C13 witness: start_analysis sent its form, with the credentials applied
\* before the send
C13_Witness ==
    /\ op[1].name = "start_analysis" /\ Returned(1)
    /\ Len(requests[1]) = 1
    /\ requests[1][1].method = "Post"
    /\ requests[1][1].auth = "api-key"
    /\ Len(requests[1][1].body.form) = 2
    /\ StepLog(1) = <<E("api_url"), E("apply_auth"), E("body"), E("send")>>


(***************************************************************************)
(* Two polls sharing the client.                                           *)
(***************************************************************************)
\* poll_job_completion run on its own (client.rs 256-277) over the fetch
\* results fs and the strategy's answers ws, from fetch k on: what it returns,
\* or Unset while it has not returned
RECURSIVE PollAlone(_, _, _)
PollAlone(fs, ws, k) ==
    IF k > Len(fs) THEN Unset
    ELSE IF ~fs[k].ok THEN fs[k]
    ELSE IF is_ready(fs[k].val.status) THEN fs[k]
    ELSE IF k > Len(ws) THEN Unset
    ELSE IF ws[k].dur = -1 THEN fs[k]
    ELSE PollAlone(fs, ws, k + 1)

\* what belongs to the call of caller p
CallState(p) ==
    <<op[p], strategy[p], form[p], pipeline[p], status_result[p], iteration_number[p],
      wait_dur[p], result[p], requests[p], received[p], checked[p], fetched[p], log[p]>>

\* every step of a call moves that call on, so a call whose position did not
\* change in a step did not take the step
OwnStateUntouched ==
    \A p \in Callers : pc'[p] = pc[p] => CallState(p)' = CallState(p)

ClientStateUnchanged == api_client' = api_client /\ server' = server

OwnCounterAndResult ==
    /\ api_client \in { ApiClient_new(c) : c \in Configs }
    /\ \A p \in Callers : Polling(p) =>
          /\ iteration_number[p] = Len(fetched[p]) - (IF pc[p] = "match" THEN 1 ELSE 0)
          /\ \A k \in 1..Len(StrategyLog(p)) : StrategyLog(p)[k].it = k
          /\ \A i \in 1..Len(requests[p]) :
                requests[p][i].url = api_url(api_client.config, <<"api", "jobs", JobOf(p)>>)
          /\ Returned(p) => result[p] = PollAlone(fetched[p], StrategyLog(p), 1)
          /\ pc[p] \in {"sleep", "api_request", "expect_success", "expect_json"} =>
                PollAlone(fetched[p], StrategyLog(p), 1) = Unset

\* C14: two polls for different jobs interleaved on one client each keep
\* their own iteration counter, a step of one leaves everything of the other
\* as it was, each returns what it would return running alone on the fetch
\* results and strategy answers it got, and no step changes the client.
C14_ConcurrentPollsDoNotInterfere ==
    /\ []OwnCounterAndResult
    /\ [][OwnStateUntouched /\ ClientStateUnchanged]_vars

\* C14 witness: both callers polled, for different jobs; the first returned
\* Ok(Completed) from its third fetch, the second an error from its first
C14_Witness ==
    /\ Polling(1) /\ Polling(2)
    /\ op[1].job_id # op[2].job_id
    /\ Returned(1) /\ Returned(2)
    /\ iteration_number[1] = 3 /\ iteration_number[2] = 1
    /\ result[1] = Ok(StatusVal("Completed"))
    /\ ~result[2].ok


(***************************************************************************)
(* The order of fetch, strategy call and sleep within a poll.              *)
(***************************************************************************)
\* the fetches, strategy calls and sleeps of caller p, in order
PollLog(p) == SelectSeq(log[p], LAMBDA e : e.ev \in {"send", "next_wait", "sleep"})

\* the number of the fetch that the j-th of these events belongs to
RoundOf(j) == (j + 2) \div 3

\* C15: in a poll the events go fetch, next_wait, sleep, fetch, next_wait,
\* sleep, ...: each next_wait follows a fetch directly and is made with the
\* non-ready status that fetch returned; each sleep follows a next_wait that
\* returned Some(d) and lasts exactly d; each further fetch follows a sleep;
\* the strategy is never called with Completed or Failed and at most once per
\* fetch.
C15_FetchWaitSleepAlternate ==
    \A p \in Callers : Polling(p) =>
        LET l == PollLog(p) IN
        /\ \A j \in 1..Len(l) :
              LET k == RoundOf(j) IN
              /\ j % 3 = 1 => l[j].ev = "send"
              /\ j % 3 = 2 =>
                    /\ l[j].ev = "next_wait"
                    /\ l[j].it = k
                    /\ WaitingAt(p, k)
                    /\ l[j].status = fetched[p][k].val.status
                    /\ l[j].status \notin {"Completed", "Failed"}
                    /\ l[j].dur = -1 => j = Len(l)
              /\ j % 3 = 0 =>
                    /\ l[j].ev = "sleep"
                    /\ l[j - 1].dur \in Durations
                    /\ l[j].dur = l[j - 1].dur
        /\ \A k \in 1..Len(fetched[p]) : Cardinality(StrategyCalls(p, k)) <= 1
        /\ \A k \in 1..Len(fetched[p]) : ReadyAt(p, k) => StrategyCalls(p, k) = {}
        /\ pc[p] = "sleep" =>
              /\ Len(l) % 3 = 2
              /\ wait_dur[p] = l[Len(l)].dur

\* C15 witness: fetch, next_wait(1, Running) = Some(1), sleep 1, fetch,
\* next_wait(2, Queued) = Some(0), sleep 0, fetch, and the poll returned
C15_Witness ==
    /\ Polling(1) /\ Returned(1)
    /\ PollLog(1) = <<E("send"), EStrategy(1, "Running", Some(1)), ESleep(1),
                      E("send"), EStrategy(2, "Queued", Some(0)), ESleep(0),
                      E("send")>>


(***************************************************************************)
(* A response that is not 2xx and whose body cannot be read.               *)
(***************************************************************************)
\* the latest response of caller p was not 2xx and its body was unreadable
UnreadableFailure(p) ==
    /\ Checked(p)
    /\ received[p].ok
    /\ ~Is2xx(received[p].resp.status)
    /\ ~received[p].resp.readable

\* C16: a response that is not 2xx and whose body cannot be read as text
\* comes out of expect_success as ApiError::IO, the error of the failed read:
\* it is not NonSuccess, carries neither the response's status code nor a Nice
\* or Raw message, and is what the operation returns.
C16_UnreadableBodyIsIO ==
    \A p \in Callers : UnreadableFailure(p) =>
        LET out == checked[p] IN
        /\ out = ErrResp(IO("read_body", received[p].resp.exchange))
        /\ out.err.kind = "IO"
        /\ out.err.kind # "NonSuccess"
        /\ out.err.status # received[p].resp.status
        /\ out.err.msg.kind \notin {"Nice", "Raw"}
        /\ CountSince(p, "read_body") = 1
        /\ Returned(p) => result[p] = Err(out.err)

\* C16 witness: a 500 with an unreadable body made get_projects return IO
C16_Witness ==
    /\ UnreadableFailure(1)
    /\ op[1].name = "get_projects"
    /\ received[1].resp.status = 500
    /\ Returned(1)
    /\ result[1] = Err(IO("read_body", 1))


(***************************************************************************)
(* A job that stays Cancelled.                                             *)
(***************************************************************************)
\* the k-th get_job_status of caller p gave Ok(Cancelled)
CancelledAt(p, k) == fetched[p][k] = Ok(StatusVal("Cancelled"))

\* every status fetch of caller p so far gave Ok(Cancelled)
StaysCancelled(p) ==
    /\ Len(fetched[p]) > 0
    /\ \A k \in 1..Len(fetched[p]) : CancelledAt(p, k)

\* C17: Cancelled is not ready, like Queued and Running: a fetch that gives
\* Cancelled is answered by one strategy call with status Cancelled and the
\* poll stops there only when that call returned None; so a poll whose fetches
\* all gave Cancelled, with no None from the strategy, has not returned, and
\* under a fixed wait it goes on to sleep and fetch again.
C17_CancelledKeepsPolling ==
    /\ ~is_ready("Cancelled") /\ ~is_ready("Queued") /\ ~is_ready("Running")
    /\ \A p \in Callers : Polling(p) =>
          /\ \A k \in 1..Len(fetched[p]) : CancelledAt(p, k) =>
                /\ (k < Len(fetched[p]) \/ pc[p] # "match") =>
                      /\ Cardinality(StrategyCalls(p, k)) = 1
                      /\ \A i \in StrategyCalls(p, k) : log[p][i].status = "Cancelled"
                /\ (k < Len(fetched[p])) => StrategyCalls(p, k) \cap Aborts(p) = {}
          /\ (StaysCancelled(p) /\ Aborts(p) = {}) => ~Returned(p)
          /\ (StaysCancelled(p) /\ FixedWait(p)) =>
                /\ ~Returned(p)
                /\ pc[p] \in {"match", "sleep", "api_request", "expect_success", "expect_json"}

\* C17 witness: under a fixed wait three fetches in a row gave Cancelled and
\* the poll is asleep before the next one, not returned
C17_Witness ==
    /\ FixedWait(1)
    /\ fetched[1] = <<Ok(StatusVal("Cancelled")), Ok(StatusVal("Cancelled")),
                      Ok(StatusVal("Cancelled"))>>
    /\ Len(StrategyLog(1)) = 3
    /\ pc[1] = "sleep"
    /\ ~Returned(1)


(***************************************************************************)
(* What a poll returns.                                                    *)
(***************************************************************************)
\* the result of the most recent get_job_status of caller p
LastFetch(p) == fetched[p][Len(fetched[p])]

\* the most recent event of caller p
LastEvent(p) == log[p][Len(log[p])]

\* C18: a poll that returned gives exactly the result of its most recent
\* get_job_status, the same Ok(status) or the same Err, which is also the one
\* value status_result holds; every earlier fetch gave Ok of a status that is
\* not ready; and Ok of a status that is not ready is returned only when the
\* last thing the poll did was a next_wait for that fetch and that status
\* which returned None.
C18_ReturnsLatestFetch ==
    \A p \in Callers : (Polling(p) /\ Returned(p)) =>
        /\ Len(fetched[p]) > 0
        /\ result[p] = LastFetch(p)
        /\ result[p] = status_result[p]
        /\ result[p] # Unset
        /\ \A k \in 1..(Len(fetched[p]) - 1) : WaitingAt(p, k)
        /\ (result[p].ok /\ ~is_ready(result[p].val.status)) =>
              /\ LastEvent(p).ev = "next_wait"
              /\ LastEvent(p).dur = -1
              /\ LastEvent(p).status = result[p].val.status
              /\ LastEvent(p).it = Len(fetched[p])
        /\ (result[p].ok /\ is_ready(result[p].val.status)) => Aborts(p) = {}
        /\ ~result[p].ok => Aborts(p) = {}

\* C18 witness: the fetches gave Queued, then Running; the strategy returned
\* None for Running and the poll returned Ok(Running), not Ok(Queued)
C18_Witness ==
    /\ Polling(1) /\ Returned(1)
    /\ fetched[1] = <<Ok(StatusVal("Queued")), Ok(StatusVal("Running"))>>
    /\ result[1] = Ok(StatusVal("Running"))
    /\ LastEvent(1) = EStrategy(2, "Running", None)


(***************************************************************************)
(* Termination of a poll.                                                  *)
(***************************************************************************)
\* what the status fetch in flight for caller p will give, computed as the
\* chain request().expect_success().expect_json() and get_job_status compute it
FetchInFlight(p) ==
    map_status(expect_json("JobStatusResponse", expect_success(pipeline[p]).value).value)

\* a result of get_job_status that ends a poll by itself
Terminal(r) == ~r.ok \/ is_ready(r.val.status)

\* caller p is in a poll whose fetch in flight gives an error or a ready status
TerminalInFlight(p) ==
    /\ Polling(p)
    /\ pc[p] = "expect_success"
    /\ Terminal(FetchInFlight(p))

\* a poll that is past its match has returned exactly when its latest fetch
\* gave an error or a ready status or the strategy returned None
StopsOnlyForCause ==
    \A p \in Callers : (Polling(p) /\ pc[p] # "match") =>
        (Returned(p) <=>
            /\ Len(fetched[p]) > 0
            /\ \/ Terminal(LastFetch(p))
               \/ Aborts(p) # {})

\* C19: with every step of a started call eventually taken, a poll whose
\* fetch gives an error or a ready status returns, a poll whose strategy
\* returned None has returned, and a sleep ends and is followed by the next
\* fetch; a poll returns for no other cause: while every fetch gave a status
\* that is not ready and the strategy gave no None, the poll has not returned.
C19_PollReturnsIffStopped ==
    /\ []StopsOnlyForCause
    /\ \A p \in Callers : TerminalInFlight(p) ~> Returned(p)
    /\ \A p \in Callers :
          (Polling(p) /\ pc[p] = "sleep" /\ iteration_number[p] < MaxIter)
             ~> (pc[p] = "match" /\ iteration_number[p] < MaxIter)

\* C19 witness: after two fetches that gave Running and two sleeps the third
\* fetch gave Completed and the poll returned
C19_Witness ==
    /\ Polling(1) /\ Returned(1)
    /\ fetched[1] = <<Ok(StatusVal("Running")), Ok(StatusVal("Running")),
                      Ok(StatusVal("Completed"))>>
    /\ Len(SleepLog(1)) = 2
    /\ Aborts(1) = {}
    /\ result[1] = Ok(StatusVal("Completed"))

====
